---- MODULE Spec2Model ----
(***************************************************************************)
(* Model of src/vs/workbench/parts/stats/node/workspaceStats.ts: the       *)
(* remote-URL extractor (RemoteMatcher scanning, SCP/URI parsing, domain   *)
(* redaction, remote hashing) and the asynchronous per-root lookup that    *)
(* reportRemotes joins into one telemetry event.                           *)
(*                                                                         *)
(* A string is a sequence of one-character strings.  Positions inside the  *)
(* operators are 1-based; lastIndex keeps JavaScript's 0-based meaning     *)
(* (the number of characters already consumed).                            *)
(***************************************************************************)
EXTENDS Integers, Sequences, FiniteSets, TLC

VARIABLES
    lastIndex,   \* RemoteMatcher.lastIndex, the scan position of the shared /g regex
    text,        \* the configuration text handed to the exported functions
    called,      \* the exported function that ran last ("none" before any call)
    arg,         \* its second argument (stripEndingDotGit, or the whitelist)
    outcome,     \* "returned" or "threw"
    result,      \* the list it returned
    history,     \* the calls of one session, oldest first
    roots,       \* number of workspace folders
    stage,       \* per root: where getHashedRemotesFromUri stands, and its flag
    answer,      \* per root: what the file service answered
    settled,     \* per root: the value (or error) of the returned promise
    requests,    \* per root: the file-service requests issued, in order
    order,       \* the roots whose promise has settled, in order of settlement
    caller,      \* who started the lookups: "reportRemotes", "direct" or "none"
    events,      \* telemetryService.publicLog calls, in order
    unexpected,  \* number of onUnexpectedError calls
    dontPromptToOpen, \* workspace storage: the value stored under
                      \* DISABLE_WORKSPACE_PROMPT_KEY, FALSE while nothing is stored
    handled,     \* the handleWorkspaceFiles calls, oldest first
    prompts,     \* the notification prompts issued, oldest first, with their state
    windows      \* the windowService.openWindow calls, in order

vars == <<lastIndex, text, called, arg, outcome, result, history,
          roots, stage, answer, settled, requests, order, caller, events, unexpected,
          dontPromptToOpen, handled, prompts, windows>>

promptVars == <<dontPromptToOpen, handled, prompts, windows>>

callVars == <<text, called, arg, outcome, result>>

uriVars == <<roots, stage, answer, settled, requests, order, caller, events, unexpected>>

-----------------------------------------------------------------------------
(* Characters and small helpers                                            *)

\* \s of a JavaScript regular expression, restricted to the characters of the model.
WhiteSpace == {" ", "\t", "\n", "\r"}

\* What '.' does not match, and where ^ and $ match under the /m flag.
LineTerminator == {"\n", "\r"}

Digit == {"0", "1", "2", "3", "4", "5", "6", "7", "8", "9"}

HexDigit == Digit \cup {"a", "b", "c", "d", "e", "f", "A", "B", "C", "D", "E", "F"}

\* JavaScript's null; no string of the model equals it.
Null == <<"null">>

\* JavaScript truthiness of a string-or-null value: null and "" are falsy.
Truthy(v) == v # Null /\ v # <<>>

SetMin(S) == CHOOSE x \in S : \A y \in S : x <= y

SetMax(S) == CHOOSE x \in S : \A y \in S : y <= x

\* First position >= from whose character is in C, or Len(s) + 1.
FirstIn(s, from, C) == SetMin({Len(s) + 1} \cup {i \in from..Len(s) : s[i] \in C})

\* First position >= from whose character is not in C, or Len(s) + 1.
FirstNotIn(s, from, C) == SetMin({Len(s) + 1} \cup {i \in from..Len(s) : s[i] \notin C})

\* String.prototype.indexOf(sub) !== -1
Contains(s, sub) ==
    \E i \in 1..(Len(s) - Len(sub) + 1) : SubSeq(s, i, i + Len(sub) - 1) = sub

\* vs/base/common/strings endsWith(haystack, needle)
endsWith(s, suffix) ==
    /\ Len(s) >= Len(suffix)
    /\ SubSeq(s, Len(s) - Len(suffix) + 1, Len(s)) = suffix

\* String.prototype.substr(0, n)
substr0(s, n) == SubSeq(s, 1, n)

-----------------------------------------------------------------------------
(* The regular expressions, lines 27-32.  Every intermediate position is    *)
(* bound once, as the parameter of a local operator.                        *)

NoMatch == [matched |-> FALSE, host |-> Null, path |-> Null]

\* ([^@:]+@)? at the start of url: the position of the '@' that ends a non-empty
\* run free of '@' and ':', or 0 when the optional group cannot match.
UserEnd(url) ==
    LET At(i) == IF i >= 2 /\ i <= Len(url) /\ url[i] = "@" THEN i ELSE 0
    IN  At(FirstIn(url, 1, {"@", ":"}))

\* ([^:]+): from position from: the position of the first ':' when at least one
\* character precedes it, or 0.
HostEnd(url, from) ==
    LET At(p) == IF p > from /\ p <= Len(url) THEN p ELSE 0
    IN  At(FirstIn(url, from, {":"}))

\* SshProtocolMatcher = /^([^@:]+@)?([^:]+):/ ; host is match[2].
\* The optional group is tried first and given up when the rest cannot match.
SshProtocolMatcher(url) ==
    LET Host(from, p) == [matched |-> TRUE, host |-> SubSeq(url, from, p - 1), path |-> Null]
        Bare(p0) == IF p0 > 0 THEN Host(1, p0) ELSE NoMatch
        User(at, p1) == IF at > 0 /\ p1 > 0 THEN Host(at + 1, p1) ELSE Bare(HostEnd(url, 1))
        Try(at) == User(at, HostEnd(url, at + 1))
    IN  Try(UserEnd(url))

\* (.+)$ after the ':' at position p: a non-empty rest without line terminators.
PathAfter(url, p) ==
    /\ p < Len(url)
    /\ \A i \in (p + 1)..Len(url) : url[i] \notin LineTerminator

\* SshUrlMatcher = /^([^@:]+@)?([^:]+):(.+)$/ ; host is match[2], path is match[3].
SshUrlMatcher(url) ==
    LET HostPath(from, p) ==
            [matched |-> TRUE, host |-> SubSeq(url, from, p - 1),
             path |-> SubSeq(url, p + 1, Len(url))]
        Bare(p0) == IF p0 > 0 /\ PathAfter(url, p0) THEN HostPath(1, p0) ELSE NoMatch
        User(at, p1) ==
            IF at > 0 /\ p1 > 0 /\ PathAfter(url, p1)
            THEN HostPath(at + 1, p1)
            ELSE Bare(HostEnd(url, 1))
        Try(at) == User(at, HostEnd(url, at + 1))
    IN  Try(UserEnd(url))

\* ([^:]+)(:\d+)?$ on s: the host, or Null.
HostAndPort(s) ==
    LET At(p) ==
            IF s = <<>> THEN Null
            ELSE IF p > Len(s) THEN s
            ELSE IF /\ p >= 2
                    /\ p < Len(s)
                    /\ \A i \in (p + 1)..Len(s) : s[i] \in Digit
            THEN SubSeq(s, 1, p - 1)
            ELSE Null
    IN  At(FirstIn(s, 1, {":"}))

\* AuthorityMatcher = /^([^@]+@)?([^:]+)(:\d+)?$/ ; the host is match[2].
AuthorityMatcher(authority) ==
    LET Bare(withUser) == IF withUser # Null THEN withUser ELSE HostAndPort(authority)
        Try(at) ==
            IF at >= 2 /\ at <= Len(authority)
            THEN Bare(HostAndPort(SubSeq(authority, at + 1, Len(authority))))
            ELSE HostAndPort(authority)
    IN  Try(FirstIn(authority, 1, {"@"}))

\* [^@:.] of SecondLevelDomainMatcher
LabelBreak == {"@", ":", "."}

\* The part of s before a trailing (:\d+), or s itself when there is none.
WithoutPort(s) ==
    LET At(p) ==
            IF p > 0 /\ p < Len(s) /\ \A i \in (p + 1)..Len(s) : s[i] \in Digit
            THEN SubSeq(s, 1, p - 1)
            ELSE s
    IN  At(SetMax({0} \cup {i \in 1..Len(s) : s[i] = ":"}))

\* Start of the run of characters outside C that ends at position last.
RunStart(s, last, C) == SetMax({0} \cup {i \in 1..last : s[i] \in C}) + 1

\* SecondLevelDomainMatcher = /([^@:.]+\.[^@:.]+)(:\d+)?$/ ; the result is match[1]:
\* the leftmost match, so the label before the last dot is taken whole.
\* y is the start of the last label, x the start of the label before it.
SecondLevelDomainMatcher(domain) ==
    LET Labels(b, y, x) ==
            IF /\ y <= Len(b)
               /\ y >= 3
               /\ b[y - 1] = "."
               /\ x <= y - 2
            THEN SubSeq(b, x, Len(b))
            ELSE Null
        Last(b, y) == Labels(b, y, RunStart(b, y - 2, LabelBreak))
        Body(b) == Last(b, RunStart(b, Len(b), LabelBreak))
    IN  Body(WithoutPort(domain))

\* AnyButDot = /[^.]/g in key.replace(AnyButDot, 'a')
AnyButDot(key) == [i \in 1..Len(key) |-> IF key[i] = "." THEN "." ELSE "a"]

-----------------------------------------------------------------------------
(* RemoteMatcher = /^\s*url\s*=\s*(.+\S)\s*$/mg and RegExp.prototype.exec    *)

AtLineStart(t, s) == s = 1 \/ t[s - 1] \in LineTerminator

\* Last position in from..to whose character is not white space (from..to holds one).
LastNonSpace(t, from, to) == SetMax({i \in from..to : t[i] \notin WhiteSpace})

NoDeclaration == [matched |-> FALSE, value |-> Null, lastIndex |-> 0]

\* One attempt of the pattern at start position s (the flags are m and g only, so
\* the key is matched case-sensitively).
\*   ^\s*url\s*=   white space (line breaks included) is skipped greedily; the
\*                 literals that follow are not white space, so nothing backtracks.
\*                 k is where the key starts and eq where '=' stands.
\*   \s*(.+\S)     c is the first character after the white space that follows '='
\*                 and e the last non-space character of c's line. The capture is
\*                 c..e when it has two characters or more; when e = c the engine
\*                 gives one white-space character back to '.+', which takes it
\*                 unless it is a line terminator.
\*   \s*$          greedy up to w, then backed up to the last place where $ matches:
\*                 the end of the text, or the last line terminator of the run.
RemoteMatcherAt(t, s) ==
    LET n == Len(t)
        Capture(eq, c, e, stop) ==
            IF e > c
            THEN [matched |-> TRUE, value |-> SubSeq(t, c, e), lastIndex |-> stop]
            ELSE IF c - 1 > eq /\ t[c - 1] \notin LineTerminator
            THEN [matched |-> TRUE, value |-> SubSeq(t, c - 1, c), lastIndex |-> stop]
            ELSE NoDeclaration
        Stop(e, w) ==
            IF w > n THEN n
            ELSE SetMax({j \in (e + 1)..(w - 1) : t[j] \in LineTerminator}) - 1
        Trail(eq, c, e) == Capture(eq, c, e, Stop(e, FirstNotIn(t, e + 1, WhiteSpace)))
        Value(eq, c) ==
            IF c <= n
            THEN Trail(eq, c, LastNonSpace(t, c, FirstIn(t, c, LineTerminator) - 1))
            ELSE NoDeclaration
        Equals(eq) ==
            IF eq <= n /\ t[eq] = "="
            THEN Value(eq, FirstNotIn(t, eq + 1, WhiteSpace))
            ELSE NoDeclaration
        Key(k) ==
            IF k + 2 <= n /\ SubSeq(t, k, k + 2) = <<"u", "r", "l">>
            THEN Equals(FirstNotIn(t, k + 3, WhiteSpace))
            ELSE NoDeclaration
    IN  IF AtLineStart(t, s) THEN Key(FirstNotIn(t, s, WhiteSpace)) ELSE NoDeclaration

\* RemoteMatcher.exec(t) with RemoteMatcher.lastIndex = li: the search starts at li,
\* takes the first start position that matches and leaves lastIndex after the match;
\* a failed search returns null and resets lastIndex to 0.
RECURSIVE RemoteMatcherFrom(_, _)
RemoteMatcherFrom(t, s) ==
    LET Try(m) == IF m.matched THEN m ELSE RemoteMatcherFrom(t, s + 1)
    IN  IF s > Len(t) THEN NoDeclaration ELSE Try(RemoteMatcherAt(t, s))

RemoteMatcherExec(t, li) == RemoteMatcherFrom(t, li + 1)

-----------------------------------------------------------------------------
(* URI.parse of vs/base/common/uri                                          *)

\* A thrown exception, as a value.
Thrown == <<"thrown">>

\* A '%' that does not start a two-digit hexadecimal escape.
MalformedEscape(url) ==
    \E i \in 1..Len(url) :
        /\ url[i] = "%"
        /\ ~ (i + 2 <= Len(url) /\ url[i + 1] \in HexDigit /\ url[i + 2] \in HexDigit)

\* The generic URI syntax, scheme ":" "//" authority path "?" query "#" fragment:
\* the scheme is the non-empty run before the first ':' when no '/', '?' or '#'
\* precedes it and the rest r starts after it; the authority follows "//" up to the
\* next '/', '?' or '#'; the path runs up to the next '?' or '#'. Parsing throws on a
\* malformed percent-escape.
UriParse(url) ==
    LET n == Len(url)
        Parts(a, b, pStart, pEnd) ==
            [threw |-> FALSE, authority |-> SubSeq(url, a, b),
             path |-> SubSeq(url, pStart, pEnd - 1)]
        Path(a, b, pStart) == Parts(a, b, pStart, FirstIn(url, pStart, {"?", "#"}))
        Authority(r, aEnd) == Path(r + 2, aEnd - 1, aEnd)
        Rest(r) ==
            IF r + 1 <= n /\ url[r] = "/" /\ url[r + 1] = "/"
            THEN Authority(r, FirstIn(url, r + 2, {"/", "?", "#"}))
            ELSE Path(1, 0, r)
        Scheme(i) == Rest(IF i >= 2 /\ i <= n /\ url[i] = ":" THEN i + 1 ELSE 1)
    IN  IF MalformedEscape(url)
        THEN [threw |-> TRUE, authority |-> <<>>, path |-> <<>>]
        ELSE Scheme(FirstIn(url, 1, {":", "/", "?", "#"}))

-----------------------------------------------------------------------------
(* Domains, lines 70-115                                                    *)

\* A variant that keeps every label of the host.
stripLowLevelDomainsKeepsAll(domain) == domain

stripLowLevelDomains(domain) == SecondLevelDomainMatcher(domain)

\* A variant that treats the authority as extractRemote does: port removed, every
\* label kept.
extractDomainFromUriKeepsHost(url) ==
    LET Try(uri) ==
            IF uri.threw THEN Thrown
            ELSE IF uri.authority # <<>> THEN AuthorityMatcher(uri.authority)
            ELSE Null
    IN  Try(UriParse(url))

\* The try block of extractDomain: its value, or Thrown.
extractDomainFromUri(url) ==
    LET Try(uri) ==
            IF uri.threw THEN Thrown
            ELSE IF uri.authority # <<>> THEN stripLowLevelDomains(uri.authority)
            ELSE Null
    IN  Try(UriParse(url))

\* catch (e) { /* ignore invalid URIs */ } return null;
extractDomainCatch(r) == IF r = Thrown THEN Null ELSE r

extractDomain(url) ==
    LET Ssh(match) == IF match.matched THEN stripLowLevelDomains(match.host) ELSE Null
    IN  IF ~ Contains(url, <<":", "/", "/">>)
        THEN Ssh(SshProtocolMatcher(url))
        ELSE extractDomainCatch(extractDomainFromUri(url))

IsElement(seq, x) == \E i \in 1..Len(seq) : seq[i] = x

\* domains.add(domain) on a Set that iterates in insertion order
SetAdd(domains, domain) ==
    IF IsElement(domains, domain) THEN domains ELSE Append(domains, domain)

\* The while loop of getDomainsOfRemotes, started with RemoteMatcher.lastIndex = li.
\* An exception leaves the loop at once, with lastIndex where the last match ended.
RECURSIVE collectDomains(_, _, _)
collectDomains(t, li, domains) ==
    LET Body(match, domain) ==
            IF domain = Thrown
            THEN [outcome |-> "threw", result |-> <<>>, lastIndex |-> match.lastIndex]
            ELSE collectDomains(t, match.lastIndex,
                                IF Truthy(domain) THEN SetAdd(domains, domain) ELSE domains)
        While(match) ==
            IF match.matched
            THEN Body(match, extractDomain(match.value))
            ELSE [outcome |-> "returned", result |-> domains, lastIndex |-> 0]
    IN  While(RemoteMatcherExec(t, li))

\* A variant that redacts whitelisted domains too.
redactIgnoringWhitelist(key, whitelist) == AnyButDot(key)

\* whitemap[key] ? key : key.replace(AnyButDot, 'a')
redact(key, whitelist) == IF IsElement(whitelist, key) THEN key ELSE AnyButDot(key)

\* elements.map(...)
redactAll(elements, whitelist) ==
    [i \in 1..Len(elements) |-> redact(elements[i], whitelist)]

getDomainsOfRemotes(t, whitelist, li) ==
    LET Map(c) ==
            IF c.outcome = "threw" THEN c
            ELSE [c EXCEPT !.result = redactAll(c.result, whitelist)]
    IN  Map(collectDomains(t, li, <<>>))

-----------------------------------------------------------------------------
(* Remotes, lines 117-166                                                   *)

stripPort(authority) == AuthorityMatcher(authority)

\* A variant that removes an ending ".git" whatever the flag says.
normalizeRemoteAlwaysStripping(host, path, stripEndingDotGit) ==
    LET Join(p) == IF p # <<>> /\ p[1] = "/" THEN host \o p ELSE host \o <<"/">> \o p
    IN  IF Truthy(host) /\ Truthy(path)
        THEN Join(IF endsWith(path, <<".", "g", "i", "t">>)
                  THEN substr0(path, Len(path) - 4)
                  ELSE path)
        ELSE Null

normalizeRemote(host, path, stripEndingDotGit) ==
    LET Join(p) == IF p # <<>> /\ p[1] = "/" THEN host \o p ELSE host \o <<"/">> \o p
    IN  IF Truthy(host) /\ Truthy(path)
        THEN Join(IF stripEndingDotGit /\ endsWith(path, <<".", "g", "i", "t">>)
                  THEN substr0(path, Len(path) - 4)
                  ELSE path)
        ELSE Null

\* The try block of extractRemote: its value, or Thrown.
extractRemoteFromUri(url, stripEndingDotGit) ==
    LET Try(uri) ==
            IF uri.threw THEN Thrown
            ELSE IF uri.authority # <<>>
            THEN normalizeRemote(stripPort(uri.authority), uri.path, stripEndingDotGit)
            ELSE Null
    IN  Try(UriParse(url))

\* A variant without the catch: the exception leaves extractRemote.
extractRemoteRethrow(r) == r

\* catch (e) { /* ignore invalid URIs */ } return null;
extractRemoteCatch(r) == IF r = Thrown THEN Null ELSE r

extractRemote(url, stripEndingDotGit) ==
    LET Ssh(match) ==
            IF match.matched
            THEN normalizeRemote(match.host, match.path, stripEndingDotGit)
            ELSE extractRemoteCatch(extractRemoteFromUri(url, stripEndingDotGit))
    IN  Ssh(IF Contains(url, <<":", "/", "/">>) THEN NoMatch ELSE SshUrlMatcher(url))

\* A variant that keeps one entry per distinct remote.
pushIfAbsent(remotes, remote) == SetAdd(remotes, remote)

\* A variant with "if" for "while": it stops at the first match and leaves
\* RemoteMatcher.lastIndex behind it.
collectRemotesOnce(t, stripEndingDotGit, li, remotes) ==
    LET Body(match, remote) ==
            IF remote = Thrown
            THEN [outcome |-> "threw", result |-> <<>>, lastIndex |-> match.lastIndex]
            ELSE [outcome |-> "returned",
                  result |-> IF Truthy(remote) THEN Append(remotes, remote) ELSE remotes,
                  lastIndex |-> match.lastIndex]
        If(match) ==
            IF match.matched
            THEN Body(match, extractRemote(match.value, stripEndingDotGit))
            ELSE [outcome |-> "returned", result |-> remotes, lastIndex |-> 0]
    IN  If(RemoteMatcherExec(t, li))

\* remotes.push(remote)
push(remotes, remote) == Append(remotes, remote)

\* The while loop of getRemotes, started with RemoteMatcher.lastIndex = li.
RECURSIVE collectRemotes(_, _, _, _)
collectRemotes(t, stripEndingDotGit, li, remotes) ==
    LET Body(match, remote) ==
            IF remote = Thrown
            THEN [outcome |-> "threw", result |-> <<>>, lastIndex |-> match.lastIndex]
            ELSE collectRemotes(t, stripEndingDotGit, match.lastIndex,
                                IF Truthy(remote) THEN push(remotes, remote) ELSE remotes)
        While(match) ==
            IF match.matched
            THEN Body(match, extractRemote(match.value, stripEndingDotGit))
            ELSE [outcome |-> "returned", result |-> remotes, lastIndex |-> 0]
    IN  While(RemoteMatcherExec(t, li))

\* stripEndingDotGit: boolean = false. The optional argument is the tuple of what the
\* caller passed after the text: <<>> when omitted, <<b>> otherwise.
stripEndingDotGitOf(args) == IF args = <<>> THEN FALSE ELSE args[1]

getRemotes(t, args, li) == collectRemotes(t, stripEndingDotGitOf(args), li, <<>>)

\* crypto.createHash('sha1').update(r).digest('hex'): a function of r alone, kept
\* symbolic, so a digest equals another only when both come from the same input.
sha1Hex(r) == [algorithm |-> "sha1", encoding |-> "hex", input |-> r]

getHashedRemotesFromConfig(t, args, li) ==
    LET Map(c) ==
            IF c.outcome = "threw" THEN c
            ELSE [c EXCEPT !.result = [i \in 1..Len(c.result) |-> sha1Hex(c.result[i])]]
    IN  Map(getRemotes(t, <<stripEndingDotGitOf(args)>>, li))

-----------------------------------------------------------------------------
(* Inputs                                                                   *)

SecondLevelDomainWhitelist == <<
    <<"g", "i", "t", "h", "u", "b", ".", "c", "o", "m">>,
    <<"b", "i", "t", "b", "u", "c", "k", "e", "t", ".", "o", "r", "g">>,
    <<"v", "i", "s", "u", "a", "l", "s", "t", "u", "d", "i", "o", ".", "c", "o", "m">>,
    <<"g", "i", "t", "l", "a", "b", ".", "c", "o", "m">>,
    <<"h", "e", "r", "o", "k", "u", ".", "c", "o", "m">>,
    <<"a", "z", "u", "r", "e", "w", "e", "b", "s", "i", "t", "e", "s", ".", "n", "e", "t">>,
    <<"i", "b", "m", ".", "c", "o", "m">>,
    <<"a", "m", "a", "z", "o", "n", ".", "c", "o", "m">>,
    <<"a", "m", "a", "z", "o", "n", "a", "w", "s", ".", "c", "o", "m">>,
    <<"c", "l", "o", "u", "d", "a", "p", "p", ".", "n", "e", "t">>,
    <<"r", "h", "c", "l", "o", "u", "d", ".", "c", "o", "m">>,
    <<"g", "o", "o", "g", "l", "e", ".", "c", "o", "m">>>>

\* Number of lines of the longest composed configuration text.
MaxLines == 3

Users == {<<>>, <<"u", "@">>}

Hosts == {<<"h">>, <<"a", ".", "b">>, <<"x", ".", "a", ".", "b">>, <<"A", ".", "b">>,
          <<"a", ".", "a">>, <<"c", ".", "d">>}

Ports == {<<>>, <<":", "8", "0">>}

Paths == {<<>>, <<"p">>, <<"/", "p">>,
          <<"p", ".", "g", "i", "t">>, <<"/", "p", ".", "g", "i", "t">>,
          <<"p", ".", "G", "I", "T">>, <<".", "g", "i", "t">>}

\* [user@]host:path
ScpValues == {u \o h \o <<":">> \o p : u \in Users, h \in Hosts, p \in Paths}

\* s://[user@]host[:port]path
UriValues ==
    {<<"s", ":", "/", "/">> \o u \o h \o o \o p :
        u \in Users, h \in Hosts, o \in Ports, p \in Paths}

\* Values that are neither, or that make URI.parse throw.
OddValues == {
    <<":", ":", ":", ":">>,
    <<"x">>,
    <<"a", "b">>,
    <<"a", ".", "b">>,
    <<"s", ":", "/", "/">>,
    <<"/", "/", "a", ".", "b", "/", "p">>,
    <<"s", ":", "/", "/", "a", ".", "b", "/", "%">>,
    <<"s", ":", "/", "/", "%", "/", "p">>,
    <<"s", ":", "/", "/", "a", ".", "b", ":", "x", "/", "p">>,
    <<"@", "a", ".", "b", ":", "p">>,
    <<"u", "@", ":", "p">>,
    <<"x", "/", "s", ":", "/", "/", "a", ".", "b", "/", "p">>}

\* The remotes named in the specification's examples.
GitHubOrgRepo == <<"g", "i", "t", "@", "g", "i", "t", "h", "u", "b", ".", "c", "o", "m", ":", "o", "r", "g", "/", "r", "e", "p", "o", ".", "g", "i", "t">>

GitHubFooBar == <<"g", "i", "t", "@", "g", "i", "t", "h", "u", "b", ".", "c", "o", "m", ":", "f", "o", "o", "/", "b", "a", "r", ".", "g", "i", "t">>

InternalExample == <<"h", "t", "t", "p", "s", ":", "/", "/", "i", "n", "t", "e", "r", "n", "a", "l", ".", "e", "x", "a", "m", "p", "l", "e", ".", "c", "o", "m", "/", "r", "e", "p", "o">>

InternalGitExample == <<"h", "t", "t", "p", "s", ":", "/", "/", "i", "n", "t", "e", "r", "n", "a", "l", "-", "g", "i", "t", ".", "e", "x", "a", "m", "p", "l", "e", ".", "c", "o", "m", "/", "r", "e", "p", "o">>

GistGitHub == <<"g", "i", "t", "@", "g", "i", "s", "t", ".", "g", "i", "t", "h", "u", "b", ".", "c", "o", "m", ":", "f", "o", "o", "/", "b", "a", "r", ".", "g", "i", "t">>

FooCoUk == <<"h", "t", "t", "p", "s", ":", "/", "/", "f", "o", "o", ".", "c", "o", ".", "u", "k", "/", "r", "e", "p", "o">>

ExampleValues ==
    {GitHubOrgRepo, GitHubFooBar, InternalExample, InternalGitExample, GistGitHub, FooCoUk}

Values == ScpValues \cup UriValues \cup OddValues \cup ExampleValues

Indents == {<<>>, <<"\t">>, <<" ", " ">>}

Keys == {<<"u", "r", "l">>, <<"U", "R", "L">>, <<"U", "r", "l">>}

Equals == {<<" ", "=", " ">>, <<"=">>, <<"\t", "=">>, <<"=", " ", " ">>}

Trails == {<<>>, <<" ">>, <<"\t", " ">>}

\* A line "url = value" as git writes it.
UrlLine(v) == <<"u", "r", "l", " ", "=", " ">> \o v

\* One line, every value, the canonical layout.
CanonicalTexts == {UrlLine(v) : v \in Values} \cup {<<"\t">> \o UrlLine(v) : v \in ExampleValues}

\* One line, every layout, a few values.
LayoutValues == {<<"x">>, <<"h", ":", "p">>, <<"a", ".", "b", ":", "p", " ", "q">>}

LayoutTexts ==
    {i \o k \o e \o v \o t :
        i \in Indents, k \in Keys, e \in Equals, v \in LayoutValues, t \in Trails}

\* The lines composed into longer texts.
LinePool == {
    UrlLine(<<"a", ".", "b", ":", "p">>),
    UrlLine(<<"s", ":", "/", "/", "c", ".", "d", "/", "p", ".", "g", "i", "t">>),
    UrlLine(<<":", ":", ":", ":">>),
    UrlLine(<<"s", ":", "/", "/", "a", ".", "b", "/", "%">>),
    <<"[", "r", "]">>,
    <<"u", "r", "l", " ", "=">>,
    <<"U", "R", "L", " ", "=", " ", "h", ":", "p">>,
    <<>>}

LF == <<"\n">>

CRLF == <<"\r", "\n">>

RECURSIVE JoinLines(_, _)
JoinLines(lines, eol) ==
    IF Len(lines) = 0 THEN <<>>
    ELSE IF Len(lines) = 1 THEN lines[1]
    ELSE lines[1] \o eol \o JoinLines(Tail(lines), eol)

ComposedTexts ==
    {JoinLines(ls, eol) :
        ls \in UNION {[1..n -> LinePool] : n \in 2..MaxLines}, eol \in {LF, CRLF}}

Texts == {<<>>} \cup CanonicalTexts \cup LayoutTexts \cup ComposedTexts

StripArgs == {<<>>, <<FALSE>>, <<TRUE>>}

Whitelists == {<<>>, <<<<"a", ".", "b">>>>, SecondLevelDomainWhitelist}

-----------------------------------------------------------------------------
(* The exported synchronous functions, applied to one drawn text            *)

Functions == {"getRemotes", "getHashedRemotesFromConfig", "getDomainsOfRemotes"}

\* The call fn(t, a), made while RemoteMatcher.lastIndex = li.
Run(fn, t, a, li) ==
    IF fn = "getRemotes" THEN getRemotes(t, a, li)
    ELSE IF fn = "getHashedRemotesFromConfig" THEN getHashedRemotesFromConfig(t, a, li)
    ELSE getDomainsOfRemotes(t, a, li)

\* A synchronous call runs to completion: one step.
Apply(fn, t, a) ==
    LET Return(r) ==
            /\ text' = t
            /\ called' = fn
            /\ arg' = a
            /\ outcome' = r.outcome
            /\ result' = r.result
            /\ lastIndex' = r.lastIndex
    IN  Return(Run(fn, t, a, lastIndex))

NoRoots == <<>>

NoCall ==
    /\ lastIndex = 0
    /\ called = "none"
    /\ arg = <<>>
    /\ outcome = "none"
    /\ result = <<>>
    /\ history = <<>>

NoLookup ==
    /\ stage = NoRoots
    /\ answer = NoRoots
    /\ settled = NoRoots
    /\ requests = NoRoots
    /\ order = <<>>
    /\ caller = "none"
    /\ events = <<>>
    /\ unexpected = 0

NoPrompt ==
    /\ dontPromptToOpen = FALSE
    /\ handled = <<>>
    /\ prompts = <<>>
    /\ windows = <<>>

Init ==
    /\ text \in Texts
    /\ NoCall
    /\ roots = 0
    /\ NoLookup
    /\ NoPrompt

CallGetRemotes ==
    /\ called = "none"
    /\ \E a \in StripArgs : Apply("getRemotes", text, a)
    /\ UNCHANGED <<history, uriVars, promptVars>>

CallGetHashedRemotesFromConfig ==
    /\ called = "none"
    /\ \E a \in StripArgs : Apply("getHashedRemotesFromConfig", text, a)
    /\ UNCHANGED <<history, uriVars, promptVars>>

CallGetDomainsOfRemotes ==
    /\ called = "none"
    /\ \E w \in Whitelists : Apply("getDomainsOfRemotes", text, w)
    /\ UNCHANGED <<history, uriVars, promptVars>>

Next ==
    \/ CallGetRemotes
    \/ CallGetHashedRemotesFromConfig
    \/ CallGetDomainsOfRemotes

Spec == Init /\ [][Next]_vars

-----------------------------------------------------------------------------
(* A session: the exported functions called one after another on any texts, *)
(* all sharing RemoteMatcher                                                *)

\* Number of calls of one session.
MaxCalls == 3

SessionTexts == {
    UrlLine(<<"a", ".", "b", ":", "p", ".", "g", "i", "t">>) \o LF \o UrlLine(<<"s", ":", "/", "/", "c", ".", "d", "/", "p">>),
    <<"\t">> \o UrlLine(<<":", ":", ":", ":">>) \o CRLF \o <<"\t">> \o UrlLine(<<"e", ".", "f", ":", "p">>) \o CRLF,
    <<"[", "r", "]">>}

SessionStripArgs == {<<>>, <<TRUE>>}

SessionWhitelists == {<<>>}

InitSession ==
    /\ text = <<>>
    /\ NoCall
    /\ roots = 0
    /\ NoLookup
    /\ NoPrompt

Record(fn, t, a) ==
    /\ Apply(fn, t, a)
    /\ history' = Append(history, [fn |-> fn, text |-> t, arg |-> a,
                                   outcome |-> outcome', result |-> result'])
    /\ UNCHANGED <<uriVars, promptVars>>

SessionGetRemotes ==
    /\ Len(history) < MaxCalls
    /\ \E t \in SessionTexts, a \in SessionStripArgs : Record("getRemotes", t, a)

SessionGetHashedRemotesFromConfig ==
    /\ Len(history) < MaxCalls
    /\ \E t \in SessionTexts, a \in SessionStripArgs :
          Record("getHashedRemotesFromConfig", t, a)

SessionGetDomainsOfRemotes ==
    /\ Len(history) < MaxCalls
    /\ \E t \in SessionTexts, w \in SessionWhitelists :
          Record("getDomainsOfRemotes", t, w)

NextSession ==
    \/ SessionGetRemotes
    \/ SessionGetHashedRemotesFromConfig
    \/ SessionGetDomainsOfRemotes

SpecSession == InitSession /\ [][NextSession]_vars

-----------------------------------------------------------------------------
(* getHashedRemotesFromUri, lines 168-177, and reportRemotes, lines 473-484  *)

\* Largest number of workspace folders.
MaxRoots == 2

\* workspaceUri.path of the r-th folder: "/", "/w", "/wx", "/wxx", ...
RootPath(r) == IF r = 1 THEN <<"/">> ELSE <<"/", "w">> \o [i \in 1..(r - 2) |-> "x"]

\* workspaceUri.with({ path: `${path !== '/' ? path : ''}/.git/config` })
gitConfigUri(path) ==
    (IF path # <<"/">> THEN path ELSE <<>>) \o <<"/", ".", "g", "i", "t", "/", "c", "o", "n", "f", "i", "g">>

\* What resolveContent may deliver as content.value.
ConfigTexts == {
    <<"\t">> \o UrlLine(<<"a", ".", "b", ":", "p", ".", "g", "i", "t">>) \o LF,
    UrlLine(<<"s", ":", "/", "/", "c", ".", "d", "/", "p">>) \o LF \o UrlLine(<<"e", ".", "f", ":", "p", ".", "g", "i", "t">>),
    <<"[", "r", "]">>}

\* How resolveContent(uri, { acceptTextOnly: true }) may fail.
ContentErrors == {"missing", "unreadable", "binary"}

Pending == [state |-> "pending", value |-> <<>>]

NoAnswer == [resolveFile |-> "pending", resolveContent |-> "none", content |-> <<>>]

\* fileService.resolveFile(uri), the first request of getHashedRemotesFromUri
resolveFileRequest(r) == [op |-> "resolveFile", uri |-> gitConfigUri(RootPath(r))]

\* A variant that reads the content at the folder itself.
resolveContentRequestAtRoot(r) == [op |-> "resolveContent", uri |-> RootPath(r)]

\* fileService.resolveContent(uri, { acceptTextOnly: true }), issued by the success
\* callback of resolveFile
resolveContentRequest(r) == [op |-> "resolveContent", uri |-> gitConfigUri(RootPath(r))]

\* Variants of the two error callbacks that pass the failure on.
onResolveFileErrorRejects == [state |-> "rejected", value |-> <<>>]

onResolveContentErrorRejects == [state |-> "rejected", value |-> <<>>]

\* err => []  of resolveFile(uri).then(..., err => [])
onResolveFileError == [state |-> "fulfilled", value |-> <<>>]

\* err => []  // ignore missing or binary file
onResolveContentError == [state |-> "fulfilled", value |-> <<>>]

\* content => getHashedRemotesFromConfig(content.value, stripEndingDotGit); an
\* exception in the callback would reject the promise.
onResolveContent(c) ==
    [state |-> IF c.outcome = "threw" THEN "rejected" ELSE "fulfilled", value |-> c.result]

\* The calls getHashedRemotesFromUri(workspaceUri, fileService, ...) started for the
\* roots in R, each issuing its resolveFile request.
Start(R, args, who) ==
    /\ caller = "none"
    /\ caller' = who
    /\ stage' = [r \in R |-> [step |-> "resolveFile", args |-> args]]
    /\ answer' = [r \in R |-> NoAnswer]
    /\ settled' = [r \in R |-> Pending]
    /\ requests' = [r \in R |-> <<resolveFileRequest(r)>>]
    /\ UNCHANGED <<roots, order, events, unexpected, lastIndex, callVars, history, promptVars>>

\* reportRemotes(workspaceUris), called by reportCloudStats when there are folders:
\* one getHashedRemotesFromUri(workspaceUri, this.fileService, true) per folder.
reportRemotes ==
    /\ roots >= 1
    /\ Start(1..roots, <<TRUE>>, "reportRemotes")

\* Another consumer of the exported function, on the first folder.
lookupRemotes ==
    /\ roots >= 1
    /\ \E args \in StripArgs : Start({1}, args, "direct")

resolveFileSucceeds(r) ==
    /\ stage[r].step = "resolveFile"
    /\ stage' = [stage EXCEPT ![r].step = "resolveContent"]
    /\ answer' = [answer EXCEPT ![r].resolveFile = "ok", ![r].resolveContent = "pending"]
    /\ requests' = [requests EXCEPT ![r] = Append(@, resolveContentRequest(r))]
    /\ UNCHANGED <<roots, settled, order, caller, events, unexpected,
                   lastIndex, callVars, history, promptVars>>

resolveFileFails(r) ==
    /\ stage[r].step = "resolveFile"
    /\ stage' = [stage EXCEPT ![r].step = "settled"]
    /\ answer' = [answer EXCEPT ![r].resolveFile = "error"]
    /\ settled' = [settled EXCEPT ![r] = onResolveFileError]
    /\ order' = Append(order, r)
    /\ UNCHANGED <<roots, requests, caller, events, unexpected,
                   lastIndex, callVars, history, promptVars>>

resolveContentSucceeds(r) ==
    /\ stage[r].step = "resolveContent"
    /\ \E content \in ConfigTexts :
          LET Then(c) ==
                  /\ settled' = [settled EXCEPT ![r] = onResolveContent(c)]
                  /\ lastIndex' = c.lastIndex
          IN  /\ Then(getHashedRemotesFromConfig(content, stage[r].args, lastIndex))
              /\ answer' = [answer EXCEPT ![r].resolveContent = "ok", ![r].content = content]
    /\ stage' = [stage EXCEPT ![r].step = "settled"]
    /\ order' = Append(order, r)
    /\ UNCHANGED <<roots, requests, caller, events, unexpected, callVars, history, promptVars>>

resolveContentFails(r) ==
    /\ stage[r].step = "resolveContent"
    /\ \E e \in ContentErrors : answer' = [answer EXCEPT ![r].resolveContent = e]
    /\ stage' = [stage EXCEPT ![r].step = "settled"]
    /\ settled' = [settled EXCEPT ![r] = onResolveContentError]
    /\ order' = Append(order, r)
    /\ UNCHANGED <<roots, requests, caller, events, unexpected,
                   lastIndex, callVars, history, promptVars>>

AllSettled == \A r \in DOMAIN stage : stage[r].step = "settled"

Reported == events # <<>> \/ unexpected > 0

\* TPromise.join(promises): the values of the promises, index by index.
joinValues == [r \in DOMAIN settled |-> settled[r].value]

\* this.telemetryService.publicLog('workspace.hashedRemotes', { remotes: hashedRemotes })
hashedRemotesEvent(hashedRemotes) ==
    [name |-> "workspace.hashedRemotes", data |-> [remotes |-> hashedRemotes]]

\* TPromise.join(...).then(hashedRemotes => publicLog(...), onUnexpectedError): runs
\* once, when every joined promise has settled; a rejected one makes the join fail.
joinSettles ==
    /\ caller = "reportRemotes"
    /\ AllSettled
    /\ ~ Reported
    /\ IF \E r \in DOMAIN settled : settled[r].state = "rejected"
       THEN /\ unexpected' = unexpected + 1
            /\ UNCHANGED events
       ELSE /\ events' = Append(events, hashedRemotesEvent(joinValues))
            /\ UNCHANGED unexpected
    /\ UNCHANGED <<roots, stage, answer, settled, requests, order, caller,
                   lastIndex, callVars, history, promptVars>>

InitUri ==
    /\ text = <<>>
    /\ NoCall
    /\ roots \in 1..MaxRoots
    /\ NoLookup
    /\ NoPrompt

NextUri ==
    \/ reportRemotes
    \/ lookupRemotes
    \/ \E r \in DOMAIN stage : resolveFileSucceeds(r)
    \/ \E r \in DOMAIN stage : resolveFileFails(r)
    \/ \E r \in DOMAIN stage : resolveContentSucceeds(r)
    \/ \E r \in DOMAIN stage : resolveContentFails(r)
    \/ joinSettles

SpecUri == InitUri /\ [][NextUri]_vars

\* Every issued request completes or fails, and every ready callback runs.
FairSpecUri == SpecUri /\ WF_vars(NextUri)

-----------------------------------------------------------------------------
(* What the claims speak about                                              *)

\* The values RemoteMatcher delivers on t, in order, for a scan that starts at 0.
RECURSIVE DeclarationsFrom(_, _)
DeclarationsFrom(t, li) ==
    LET Rest(m) ==
            IF m.matched THEN <<m.value>> \o DeclarationsFrom(t, m.lastIndex) ELSE <<>>
    IN  Rest(RemoteMatcherExec(t, li))

Declarations(t) == DeclarationsFrom(t, 0)

\* The elements of seq that are neither null nor empty, in order.
Present(seq) == SelectSeq(seq, Truthy)

\* seq without the repetitions of an element that occurred earlier.
RECURSIVE FirstAppearances(_)
FirstAppearances(seq) ==
    IF seq = <<>> THEN <<>>
    ELSE LET Keep(init) ==
                 IF IsElement(init, seq[Len(seq)]) THEN init
                 ELSE Append(init, seq[Len(seq)])
         IN  Keep(FirstAppearances(SubSeq(seq, 1, Len(seq) - 1)))

\* The domains of the declarations of t, one per domain, in order of first appearance.
DeclaredDomains(t) ==
    LET Of(d) == FirstAppearances(Present([i \in 1..Len(d) |-> extractDomain(d[i])]))
    IN  Of(Declarations(t))

\* The remotes of the declarations of t, one per declaration that yields one.
DeclaredRemotes(t, strip) ==
    LET Of(d) == Present([i \in 1..Len(d) |-> extractRemote(d[i], strip)])
    IN  Of(Declarations(t))

Blank == {" ", "\t", "\r"}

\* s without its leading and trailing blanks.
Trimmed(s) ==
    LET Cut(I) == IF I = {} THEN <<>> ELSE SubSeq(s, SetMin(I), SetMax(I))
    IN  Cut({i \in 1..Len(s) : s[i] \notin Blank})

\* The lines of t, which end with LF or CRLF.
RECURSIVE LinesOf(_)
LinesOf(t) ==
    LET Split(p) ==
            IF p > Len(t) THEN <<t>>
            ELSE <<SubSeq(t, 1, p - 1)>> \o LinesOf(SubSeq(t, p + 1, Len(t)))
    IN  Split(FirstIn(t, 1, {"\n"}))

LowerCase(c) == IF c = "U" THEN "u" ELSE IF c = "R" THEN "r" ELSE IF c = "L" THEN "l" ELSE c

\* The VALUE of a line of the form  KEY = VALUE  (blanks optional everywhere, KEY
\* 'url' in any letter case, VALUE not empty), or Null for any other line.
LineValue(line) ==
    LET Value(rest) ==
            IF rest # <<>> /\ Head(rest) = "=" /\ Trimmed(Tail(rest)) # <<>>
            THEN Trimmed(Tail(rest))
            ELSE Null
        Key(l) ==
            IF /\ Len(l) >= 3
               /\ <<LowerCase(l[1]), LowerCase(l[2]), LowerCase(l[3])>> = <<"u", "r", "l">>
            THEN Value(Trimmed(SubSeq(l, 4, Len(l))))
            ELSE Null
    IN  Key(Trimmed(line))

LineValues(t) ==
    LET Of(ls) == Present([i \in 1..Len(ls) |-> LineValue(ls[i])])
    IN  Of(LinesOf(t))

Returned(fn) == called = fn /\ outcome = "returned"

-----------------------------------------------------------------------------
(* C2 *)

NoTwoEqual(seq) == \A i, j \in 1..Len(seq) : i # j => seq[i] # seq[j]

\* C2 (as stated): the list getDomainsOfRemotes returns, after redaction, holds no
\* two equal elements and no null or empty element.
C2_RedactedDomainsDistinct ==
    Returned("getDomainsOfRemotes") =>
        /\ NoTwoEqual(result)
        /\ \A i \in 1..Len(result) : Truthy(result[i])

-----------------------------------------------------------------------------
(* C3 *)

\* The redaction the claim describes: same length, dots kept, 'a' elsewhere.
IsRedactionOf(out, domain) ==
    /\ Len(out) = Len(domain)
    /\ \A k \in 1..Len(domain) : out[k] = IF domain[k] = "." THEN "." ELSE "a"

OnlyAAndDot(out) == \A k \in 1..Len(out) : out[k] \in {"a", "."}

\* Each collected domain, in order of first appearance, is output as itself when it
\* is exactly a whitelist member and as its redaction otherwise.
OutputByWhitelist(out, domains, whitelist) ==
    /\ Len(out) = Len(domains)
    /\ \A i \in 1..Len(domains) :
          /\ IsElement(whitelist, domains[i]) => out[i] = domains[i]
          /\ ~ IsElement(whitelist, domains[i]) => IsRedactionOf(out[i], domains[i])
          /\ IsElement(whitelist, out[i]) \/ OnlyAAndDot(out[i])

\* C3 (amended): every domain collected by getDomainsOfRemotes is output unchanged
\* when it is exactly, case-sensitively, a member of the whitelist, and otherwise as
\* the string of the same length that keeps every '.' and has 'a' elsewhere; the
\* outputs follow the order of first appearance of their domains in the text.
C3_OutputByWhitelist ==
    Returned("getDomainsOfRemotes") =>
        OutputByWhitelist(result, DeclaredDomains(text), arg)

\* C3 (as stated): in addition, a domain is output unchanged only if it is a
\* member of the whitelist.
C3_UnchangedIffWhitelisted ==
    Returned("getDomainsOfRemotes") =>
        /\ OutputByWhitelist(result, DeclaredDomains(text), arg)
        /\ \A i \in 1..Len(result) :
              result[i] = DeclaredDomains(text)[i]
                  <=> IsElement(arg, DeclaredDomains(text)[i])

\* A whitelisted domain kept, next to a differently-cased one that is redacted.
C3_Witness ==
    /\ Returned("getDomainsOfRemotes")
    /\ arg = <<<<"a", ".", "b">>>>
    /\ \E i \in 1..Len(result) :
          /\ DeclaredDomains(text)[i] = <<"c", ".", "d">>
          /\ result[i] = <<"a", ".", "a">>
    /\ \E i \in 1..Len(result) : result[i] = <<"a", ".", "b">>

-----------------------------------------------------------------------------
(* C4 *)

InternalExampleTexts == {UrlLine(InternalExample), <<"\t">> \o UrlLine(InternalExample)}

InternalGitExampleTexts ==
    {UrlLine(InternalGitExample), <<"\t">> \o UrlLine(InternalGitExample)}

\* C4 (as stated): with an empty whitelist, the host internal.example.com is output
\* with its three labels redacted, and so is internal-git.example.com.
C4_ThreeLabelsRedacted ==
    /\ Returned("getDomainsOfRemotes") /\ arg = <<>> /\ text \in InternalExampleTexts
          => result = <<<<"a", "a", "a", "a", "a", "a", "a", "a", "a", "a", "a", "a", "a", "a", "a", ".", "a", "a", "a", "a", "a", "a", "a", ".", "a", "a", "a">>>>
    /\ Returned("getDomainsOfRemotes") /\ arg = <<>> /\ text \in InternalGitExampleTexts
          => result = <<<<"a", "a", "a", "a", "a", "a", "a", "a", "a", "a", "a", "a", ".", "a", "a", "a", "a", "a", "a", "a", ".", "a", "a", "a">>>>

\* C4 (amended): with an empty whitelist, "url = https://internal.example.com/repo"
\* gives exactly ["aaaaaaa.aaa"]: the host is cut to its last two labels,
\* example.com, before the redaction, which keeps that one dot; likewise for
\* internal-git.example.com.
C4_TwoLabelsRedacted ==
    Returned("getDomainsOfRemotes") /\ arg = <<>>
        /\ text \in InternalExampleTexts \cup InternalGitExampleTexts
        => result = <<<<"a", "a", "a", "a", "a", "a", "a", ".", "a", "a", "a">>>>

C4_Witness ==
    /\ Returned("getDomainsOfRemotes")
    /\ arg = <<>>
    /\ text = UrlLine(InternalExample)
    /\ Len(result) = 1
    /\ Len(result[1]) = 11

-----------------------------------------------------------------------------
(* C5 *)

\* The host and path a declared value parses to: the SCP-style reading when the
\* value holds no "://" and matches it, else the reading as a URI with an authority.
ParsedRemote(v) ==
    LET None == [parsed |-> FALSE, host |-> Null, path |-> Null]
        Uri(uri) ==
            IF ~ uri.threw /\ uri.authority # <<>>
            THEN [parsed |-> TRUE, host |-> stripPort(uri.authority), path |-> uri.path]
            ELSE None
        Ssh(m) ==
            IF m.matched THEN [parsed |-> TRUE, host |-> m.host, path |-> m.path]
            ELSE Uri(UriParse(v))
    IN  Ssh(IF Contains(v, <<":", "/", "/">>) THEN NoMatch ELSE SshUrlMatcher(v))

DotGit == <<".", "g", "i", "t">>

\* path without its last four characters when they are exactly ".git" and the flag
\* is set; path itself otherwise.
WithoutDotGit(path, strip) ==
    IF strip /\ Len(path) >= 4 /\ SubSeq(path, Len(path) - 3, Len(path)) = DotGit
    THEN SubSeq(path, 1, Len(path) - 4)
    ELSE path

\* host and path joined by exactly one '/'.
Joined(host, path) ==
    IF path # <<>> /\ Head(path) = "/" THEN host \o path ELSE host \o <<"/">> \o path

\* What the claim expects of one declared value, or Null when it has no host or path.
ExpectedRemote(v, strip) ==
    LET Of(r) ==
            IF r.parsed /\ Truthy(r.host) /\ Truthy(r.path)
            THEN Joined(r.host, WithoutDotGit(r.path, strip))
            ELSE Null
    IN  Of(ParsedRemote(v))

ExpectedRemotes(t, strip) ==
    LET Of(d) == Present([i \in 1..Len(d) |-> ExpectedRemote(d[i], strip)])
    IN  Of(Declarations(t))

GitHubOrgRepoTexts == {UrlLine(GitHubOrgRepo), <<"\t">> \o UrlLine(GitHubOrgRepo)}

\* C5: for every declaration with a non-empty host and path, getRemotes(text, true)
\* drops exactly the four trailing characters of a path that ends with the
\* case-sensitive ".git" and leaves any other path alone; getRemotes(text, false)
\* and getRemotes(text) never drop the suffix. "url = git@github.com:org/repo.git"
\* gives github.com/org/repo with the flag and github.com/org/repo.git without.
C5_DotGitStripped ==
    Returned("getRemotes") =>
        /\ arg = <<TRUE>> => result = ExpectedRemotes(text, TRUE)
        /\ arg \in {<<>>, <<FALSE>>} => result = ExpectedRemotes(text, FALSE)
        /\ text \in GitHubOrgRepoTexts /\ arg = <<TRUE>>
              => result = <<<<"g", "i", "t", "h", "u", "b", ".", "c", "o", "m", "/", "o", "r", "g", "/", "r", "e", "p", "o">>>>
        /\ text \in GitHubOrgRepoTexts /\ arg \in {<<>>, <<FALSE>>}
              => result = <<<<"g", "i", "t", "h", "u", "b", ".", "c", "o", "m", "/", "o", "r", "g", "/", "r", "e", "p", "o", ".", "g", "i", "t">>>>

\* With the flag set, a path lost its ".git".
C5_Witness ==
    /\ Returned("getRemotes")
    /\ arg = <<TRUE>>
    /\ text = UrlLine(<<"a", ".", "b", ":", "p", ".", "g", "i", "t">>)
    /\ result = <<<<"a", ".", "b", "/", "p">>>>

-----------------------------------------------------------------------------
(* C6 *)

\* The result holds one entry for every value of d that yields a remote, in order
\* and without dropping repetitions (getRemotes), or the hashes of those entries,
\* index by index (getHashedRemotesFromConfig).
OneEntryPerValue(d, strip) ==
    LET Hashes(remotes) ==
            /\ Len(result) = Len(remotes)
            /\ \A i \in 1..Len(result) : result[i] = sha1Hex(remotes[i])
    IN  /\ called = "getRemotes" =>
              /\ result = Present([i \in 1..Len(d) |-> extractRemote(d[i], strip)])
              /\ Len(result) =
                    Cardinality({i \in 1..Len(d) : Truthy(extractRemote(d[i], strip))})
        /\ called = "getHashedRemotesFromConfig" =>
              Hashes(Present([i \in 1..Len(d) |-> extractRemote(d[i], strip)]))

\* C6 (as stated): getRemotes returns one entry for every Remote Declaration of the
\* text (every line of the form KEY = VALUE, KEY being 'url' in any letter case)
\* whose value parses and normalizes, in the order of the text and without dropping
\* repetitions, and getHashedRemotesFromConfig returns the hashes of those entries,
\* index by index.
C6_OneEntryPerRemoteDeclaration ==
    (outcome = "returned" /\ called \in {"getRemotes", "getHashedRemotesFromConfig"}) =>
        OneEntryPerValue(LineValues(text), stripEndingDotGitOf(arg))

\* The same, of the values RemoteMatcher delivers instead of the Remote Declarations.
C6_OneEntryPerDeclaration ==
    (outcome = "returned" /\ called \in {"getRemotes", "getHashedRemotesFromConfig"}) =>
        OneEntryPerValue(Declarations(text), stripEndingDotGitOf(arg))

\* The same remote declared three times is returned three times.
C6_Witness ==
    /\ Returned("getRemotes")
    /\ Len(Declarations(text)) = 3
    /\ result = <<<<"a", ".", "b", "/", "p">>, <<"a", ".", "b", "/", "p">>,
                  <<"a", ".", "b", "/", "p">>>>

-----------------------------------------------------------------------------
(* C7 *)

\* C7 (as stated): the scanner delivers exactly the trimmed VALUE of every line of
\* the form KEY = VALUE, KEY being 'url' in any letter case and VALUE any non-empty
\* value, and nothing for any other line.
C7_EveryUrlLineRecognized ==
    called = "getRemotes" => Declarations(text) = LineValues(text)

-----------------------------------------------------------------------------
(* C8 *)

HasAuthority(v) ==
    LET Of(uri) == ~ uri.threw /\ uri.authority # <<>>
    IN  Of(UriParse(v))

\* v matches neither the SCP-style grammar nor a URI with an authority.
Malformed(v) ==
    /\ Contains(v, <<":", "/", "/">>) \/ ~ SshProtocolMatcher(v).matched
    /\ ~ HasAuthority(v)

WellFormed(v) == ~ Malformed(v)

\* C8: the three functions return a list for every text, never an exception; the
\* declarations that match neither grammar (or whose URI parse throws) add nothing
\* to any result while the others of the same text still count; and a text without
\* a declaration gives the empty list.
C8_TotalAndSkipsMalformed ==
    LET Skips(d) ==
            LET Others(sound) ==
                    /\ called = "getDomainsOfRemotes" =>
                          Len(result) = Len(FirstAppearances(Present(
                              [i \in 1..Len(sound) |-> extractDomain(sound[i])])))
                    /\ called # "getDomainsOfRemotes" =>
                          Len(result) = Len(Present(
                              [i \in 1..Len(sound) |->
                                  extractRemote(sound[i], stripEndingDotGitOf(arg))]))
            IN  /\ d = <<>> => result = <<>>
                /\ \A i \in 1..Len(d) :
                      Malformed(d[i]) =>
                          /\ extractDomain(d[i]) = Null
                          /\ extractRemote(d[i], TRUE) = Null
                          /\ extractRemote(d[i], FALSE) = Null
                /\ Others(SelectSeq(d, WellFormed))
    IN  called # "none" =>
            /\ outcome = "returned"
            /\ ~ Contains(text, <<"u", "r", "l">>) => result = <<>>
            /\ Skips(Declarations(text))

\* A text whose first declaration is "::::", whose second makes URI.parse throw and
\* whose third is sound: the call returned and the third alone is in the result.
C8_Witness ==
    /\ Returned("getRemotes")
    /\ Len(Declarations(text)) = 3
    /\ Declarations(text)[1] = <<":", ":", ":", ":">>
    /\ UriParse(Declarations(text)[2]).threw
    /\ result = <<<<"a", ".", "b", "/", "p">>>>

-----------------------------------------------------------------------------
(* C9 *)

FreshResult(h) == Run(h.fn, h.text, h.arg, 0).result

\* C9: every call of a session starts its scan at the beginning of its own text:
\* between calls RemoteMatcher.lastIndex is 0, each call returned what a scan of its
\* text from position 0 returns, and two calls with the same function, text and
\* argument returned the same, whatever was called in between.
C9_CallsIndependent ==
    /\ lastIndex = 0
    /\ \A i \in 1..Len(history) :
          /\ history[i].outcome = "returned"
          /\ history[i].result = FreshResult(history[i])
    /\ \A i, j \in 1..Len(history) :
          (/\ history[i].fn = history[j].fn
           /\ history[i].text = history[j].text
           /\ history[i].arg = history[j].arg) => history[i].result = history[j].result

\* The same call before and after a call on another text, with the same non-empty
\* result.
C9_Witness ==
    /\ Len(history) = 3
    /\ history[1].fn = "getRemotes"
    /\ history[3].fn = "getRemotes"
    /\ history[2].fn = "getDomainsOfRemotes"
    /\ history[1].text = history[3].text
    /\ history[1].arg = history[3].arg
    /\ history[2].text # history[1].text
    /\ history[2].result # <<>>
    /\ Len(history[1].result) = 2
    /\ history[3].result = history[1].result

-----------------------------------------------------------------------------
(* C1 *)

Failed(r) == answer[r].resolveFile = "error" \/ answer[r].resolveContent \in ContentErrors

\* What the lookup of root r has to resolve to, given what the file service answered.
ExpectedLookup(r, args) ==
    IF Failed(r) THEN <<>> ELSE getHashedRemotesFromConfig(answer[r].content, args, 0).result

\* C1: no promise of getHashedRemotesFromUri is ever rejected, and a settled one holds
\* the empty list when resolveFile or resolveContent failed (missing, unreadable or
\* binary file) and otherwise exactly getHashedRemotesFromConfig(content, strip).
C1_AlwaysResolves ==
    /\ unexpected = 0
    /\ \A r \in DOMAIN settled :
          /\ settled[r].state # "rejected"
          /\ stage[r].step = "settled" <=> settled[r].state = "fulfilled"
          /\ settled[r].state = "fulfilled" =>
                settled[r].value = ExpectedLookup(r, stage[r].args)

\* After resolveFile succeeded, resolveContent refused a binary configuration
\* file, and the promise was fulfilled with the empty list.
C1_Witness ==
    /\ caller = "direct"
    /\ stage[1].args = <<FALSE>>
    /\ answer[1].resolveFile = "ok"
    /\ answer[1].resolveContent = "binary"
    /\ Len(requests[1]) = 2
    /\ settled[1] = [state |-> "fulfilled", value |-> <<>>]

-----------------------------------------------------------------------------
(* C10 *)

ExpectedPayload == [r \in 1..roots |-> ExpectedLookup(r, <<TRUE>>)]

OneEventInRootOrder ==
    /\ Len(events) <= 1
    /\ unexpected = 0
    /\ events # <<>> =>
          /\ caller = "reportRemotes"
          /\ AllSettled
          /\ events[1].name = "workspace.hashedRemotes"
          /\ events[1].data = [remotes |-> ExpectedPayload]

\* C10: reportRemotes publishes 'workspace.hashedRemotes' at most once, only when
\* every root has settled, with one entry per root in root order, the entry of a
\* failed root being the empty list and the others what their files hold; and once
\* reportRemotes has run, the event is eventually published, whichever roots fail.
C10_OneEventPublished ==
    /\ []OneEventInRootOrder
    /\ (caller = "reportRemotes") ~> (Len(events) = 1)

\* Two roots, the second settled first, the first failed: the event lists the empty
\* list first and the second root's hashes second.
C10_Witness ==
    /\ roots = 2
    /\ order = <<2, 1>>
    /\ answer[1].resolveFile = "error"
    /\ answer[2].resolveContent = "ok"
    /\ events = <<hashedRemotesEvent(<<<<>>, <<sha1Hex(<<"a", ".", "b", "/", "p">>)>>>>)>>

-----------------------------------------------------------------------------
(* C11 *)

\* s after its last '@', if it has one.
AfterLastAt(s) ==
    LET Cut(I) == IF I = {} THEN s ELSE SubSeq(s, SetMax(I) + 1, Len(s))
    IN  Cut({i \in 1..Len(s) : s[i] = "@"})

\* s without an ending ':' followed by one or more digits.
WithoutNumericPort(s) ==
    LET Cut(I) ==
            IF I = {} THEN s
            ELSE IF /\ SetMax(I) < Len(s)
                    /\ \A k \in (SetMax(I) + 1)..Len(s) : s[k] \in Digit
            THEN SubSeq(s, 1, SetMax(I) - 1)
            ELSE s
    IN  Cut({i \in 1..Len(s) : s[i] = ":"})

\* The host of a value without "://": what stands before the first ':', less an
\* optional "user@"; Null when the value has no ':'.
ScpHost(v) ==
    LET User(head, at) ==
            IF at > 1 /\ at <= Len(head) THEN SubSeq(head, at + 1, Len(head)) ELSE head
        Before(c) ==
            IF c > Len(v) THEN Null
            ELSE User(SubSeq(v, 1, c - 1), FirstIn(v, 1, {"@"}))
    IN  Before(FirstIn(v, 1, {":"}))

\* The host of a value with "://": when a scheme (a non-empty run without '/', '?'
\* or '#') stands before the first ':' and "//" follows it, what stands between
\* that "//" and the next '/', '?' or '#', less an optional "user@" and an optional
\* numeric ":port"; Null otherwise.
UriHost(v) ==
    LET Authority(c) ==
            IF c >= 2 /\ c + 2 <= Len(v) /\ SubSeq(v, c, c + 2) = <<":", "/", "/">>
            THEN WithoutNumericPort(AfterLastAt(
                     SubSeq(v, c + 3, FirstIn(v, c + 3, {"/", "?", "#"}) - 1)))
            ELSE Null
    IN  Authority(FirstIn(v, 1, {":", "/", "?", "#"}))

HostOf(v) == IF Contains(v, <<":", "/", "/">>) THEN UriHost(v) ELSE ScpHost(v)

Dots(host) == {i \in 1..Len(host) : host[i] = "."}

\* host is a run of one or more non-empty labels separated by single dots, free of
\* '@', ':' and '%'.
Labelled(host) ==
    /\ host # Null
    /\ host # <<>>
    /\ \A i \in 1..Len(host) : host[i] \notin {"@", ":", "%"}
    /\ host[1] # "." /\ host[Len(host)] # "."
    /\ \A i \in Dots(host) : (i + 1) \notin Dots(host)

\* The last two labels of a host of two labels or more; Null for a host without a dot.
LastTwoLabels(host) ==
    LET From(I) ==
            IF I = {} THEN Null
            ELSE SubSeq(host, SetMax({0} \cup (I \ {SetMax(I)})) + 1, Len(host))
    IN  From(Dots(host))

\* The declared value has a host the claim speaks about, and no percent sign.
HasHost(v) == Labelled(HostOf(v)) /\ ~ Contains(v, <<"%">>)

DomainOf(v) == LastTwoLabels(HostOf(v))

\* C11: of every declaration delivered by the scan whose host (without "user@" and,
\* in a URI, without a numeric ":port") is made of non-empty labels, extractDomain
\* gives exactly the last two labels when there are two or more and nothing when
\* the host has no dot; and when every declaration of the text is such a one,
\* getDomainsOfRemotes applies the whitelist to those two-label domains, in order
\* of first appearance (gist.github.com counts as github.com, foo.co.uk as co.uk).
C11_LastTwoLabels ==
    LET Domains(d) ==
            /\ \A i \in 1..Len(d) : HasHost(d[i]) => extractDomain(d[i]) = DomainOf(d[i])
            /\ (\A i \in 1..Len(d) : HasHost(d[i])) =>
                  OutputByWhitelist(
                      result,
                      FirstAppearances(Present([i \in 1..Len(d) |-> DomainOf(d[i])])),
                      arg)
            /\ text = UrlLine(GistGitHub) /\ arg = SecondLevelDomainWhitelist
                  => result = <<<<"g", "i", "t", "h", "u", "b", ".", "c", "o", "m">>>>
            /\ text = UrlLine(FooCoUk) /\ arg = <<>> => result = <<<<"a", "a", ".", "a", "a">>>>
    IN  Returned("getDomainsOfRemotes") => Domains(Declarations(text))

\* A URI with a user, a three-label host and a port, under a whitelist that holds
\* the last two labels: the two-label domain came out unchanged.
C11_Witness ==
    /\ Returned("getDomainsOfRemotes")
    /\ text = UrlLine(<<"s", ":", "/", "/", "u", "@", "x", ".", "a", ".", "b", ":", "8", "0", "/", "p">>)
    /\ arg = <<<<"a", ".", "b">>>>
    /\ result = <<<<"a", ".", "b">>>>

-----------------------------------------------------------------------------
(* C12 *)

\* <root>/.git/config, the root folder "/" giving "/.git/config".
ConfigLocation(r) ==
    IF RootPath(r) = <<"/">> THEN <<"/", ".", "g", "i", "t", "/", "c", "o", "n", "f", "i", "g">>
    ELSE RootPath(r) \o <<"/", ".", "g", "i", "t", "/", "c", "o", "n", "f", "i", "g">>

\* Every request issued for root r has been answered.
AllAnswered(r) ==
    /\ answer[r].resolveFile \in {"ok", "error"}
    /\ Len(requests[r]) = 2 => answer[r].resolveContent \in {"ok"} \cup ContentErrors

\* C12: each getHashedRemotesFromUri call issues exactly one existence check, first,
\* and at most one content read after it, both of <root>/.git/config; the content
\* read is issued only once the existence check has succeeded, and none when it
\* failed; nothing is issued again after a failure; and the promise is settled
\* only when every issued request has completed or failed.
C12_OneCheckThenOneRead ==
    \A r \in DOMAIN requests :
        /\ Len(requests[r]) \in {1, 2}
        /\ requests[r][1] = [op |-> "resolveFile", uri |-> ConfigLocation(r)]
        /\ Len(requests[r]) = 2 =>
              /\ requests[r][2] = [op |-> "resolveContent", uri |-> ConfigLocation(r)]
              /\ answer[r].resolveFile = "ok"
        /\ answer[r].resolveFile = "ok" => Len(requests[r]) = 2
        /\ answer[r].resolveFile \in {"pending", "error"} =>
              /\ Len(requests[r]) = 1
              /\ answer[r].resolveContent = "none"
        /\ settled[r].state # "pending" => AllAnswered(r)
        /\ AllAnswered(r) => settled[r].state # "pending"

\* Two folders: for "/" the existence check failed and nothing else was asked; for
\* "/w" the check succeeded, the one read of /w/.git/config failed, and both
\* promises are settled.
C12_Witness ==
    /\ caller = "reportRemotes"
    /\ roots = 2
    /\ requests[1] = <<[op |-> "resolveFile", uri |-> <<"/", ".", "g", "i", "t", "/", "c", "o", "n", "f", "i", "g">>]>>
    /\ answer[1].resolveFile = "error"
    /\ requests[2] = <<[op |-> "resolveFile", uri |-> <<"/", "w", "/", ".", "g", "i", "t", "/", "c", "o", "n", "f", "i", "g">>],
                       [op |-> "resolveContent", uri |-> <<"/", "w", "/", ".", "g", "i", "t", "/", "c", "o", "n", "f", "i", "g">>]>>
    /\ answer[2].resolveContent = "unreadable"
    /\ settled[1].state = "fulfilled"
    /\ settled[2].state = "fulfilled"

-----------------------------------------------------------------------------
(* handleWorkspaceFiles, lines 376-412, and its caller, lines 364-370       *)

\* Number of handleWorkspaceFiles calls, over the windows that share the
\* workspace storage.
MaxHandleCalls == 3

\* workspace.folders[0].uri.fsPath
Folder == <<"/", "w">>

WORKSPACE_EXTENSION == <<"c", "o", "d", "e", "-", "w", "o", "r", "k", "s", "p", "a", "c", "e">>

FileA == <<"a", ".", "c", "o", "d", "e", "-", "w", "o", "r", "k", "s", "p", "a", "c", "e">>

FileB == <<"b", ".", "c", "o", "d", "e", "-", "w", "o", "r", "k", "s", "p", "a", "c", "e">>

FileC == <<"c", ".", "t", "x", "t">>

\* The names found at the top of the folder.
FolderContents == {<<>>, <<FileC>>, <<FileA>>, <<FileC, FileB>>, <<FileA, FileB>>,
                   <<FileA, FileC, FileB>>}

\* extname(name): from the last '.' on, or "" without one.
extname(name) ==
    LET From(I) == IF I = {} THEN <<>> ELSE SubSeq(name, SetMax(I), Len(name))
    IN  From({i \in 2..Len(name) : name[i] = "."})

\* name => extname(name) === `.${WORKSPACE_EXTENSION}`
IsWorkspaceFile(name) == extname(name) = <<".">> \o WORKSPACE_EXTENSION

\* URI.file(join(folder.fsPath, workspaceFile))
workspaceFileUri(folder, workspaceFile) == folder \o <<"/">> \o workspaceFile

\* A variant that never reads the stored flag as set.
promptDisabledNever == FALSE

\* this.storageService.getBoolean(DISABLE_WORKSPACE_PROMPT_KEY, StorageScope.WORKSPACE)
promptDisabled == dontPromptToOpen

\* The prompt with the "Open Workspace" choice (one workspace file) or with the
\* "Select Workspace" choice (several); "Don't Show Again" is its second choice.
Prompt(folder, workspaces) ==
    [call |-> Len(handled) + 1,
     choice |-> IF Len(workspaces) = 1 THEN "Open Workspace" ELSE "Select Workspace",
     folder |-> folder,
     workspaces |-> workspaces,
     state |-> "shown",
     ranAfter |-> 0]

handleWorkspaceFiles(folder, workspaces) ==
    /\ handled' = Append(handled, [stored |-> dontPromptToOpen, workspaces |-> workspaces])
    /\ prompts' = IF promptDisabled \/ Len(workspaces) = 0 THEN prompts
                  ELSE Append(prompts, Prompt(folder, workspaces))
    /\ UNCHANGED <<dontPromptToOpen, windows>>

\* The end of getWorkspaceTags' folder scan: the top-level workspace files of a
\* single local folder are handed to handleWorkspaceFiles when there is one or more.
getWorkspaceTags ==
    /\ Len(handled) < MaxHandleCalls
    /\ \E names \in FolderContents, isSingleLocalWorkspaceFolder \in BOOLEAN :
          LET Handle(workspaceFiles) ==
                  IF isSingleLocalWorkspaceFolder /\ Len(workspaceFiles) > 0
                  THEN handleWorkspaceFiles(Folder, workspaceFiles)
                  ELSE UNCHANGED promptVars
          IN  Handle(SelectSeq(names, IsWorkspaceFile))
    /\ UNCHANGED <<lastIndex, callVars, history, uriVars>>

\* this.windowService.openWindow([uri]), from prompt j
openWindow(j, uri) == windows' = Append(windows, [prompt |-> j, uri |-> uri])

\* The user runs "Open Workspace".
runOpenWorkspace(j) ==
    /\ prompts[j].state = "shown"
    /\ prompts[j].choice = "Open Workspace"
    /\ openWindow(j, workspaceFileUri(prompts[j].folder, prompts[j].workspaces[1]))
    /\ prompts' = [prompts EXCEPT ![j].state = "opened"]
    /\ UNCHANGED <<dontPromptToOpen, handled, lastIndex, callVars, history, uriVars>>

\* The user runs "Select Workspace": quickInputService.pick(...) is shown.
runSelectWorkspace(j) ==
    /\ prompts[j].state = "shown"
    /\ prompts[j].choice = "Select Workspace"
    /\ prompts' = [prompts EXCEPT ![j].state = "picking"]
    /\ UNCHANGED <<dontPromptToOpen, handled, windows, lastIndex, callVars, history, uriVars>>

\* The pick is cancelled.
NoPick == <<"undefined">>

\* pick => { if (pick) { openWindow(...) } }, the pick being an item or nothing.
pickSettles(j) ==
    /\ prompts[j].state = "picking"
    /\ \E pick \in {NoPick} \cup {prompts[j].workspaces[k] : k \in 1..Len(prompts[j].workspaces)} :
          IF pick # NoPick
          THEN /\ openWindow(j, workspaceFileUri(prompts[j].folder, pick))
               /\ prompts' = [prompts EXCEPT ![j].state = "picked"]
          ELSE /\ UNCHANGED windows
               /\ prompts' = [prompts EXCEPT ![j].state = "cancelled"]
    /\ UNCHANGED <<dontPromptToOpen, handled, lastIndex, callVars, history, uriVars>>

\* The user runs "Don't Show Again":
\* this.storageService.store(DISABLE_WORKSPACE_PROMPT_KEY, true, StorageScope.WORKSPACE)
runDoNotShowAgain(j) ==
    /\ prompts[j].state = "shown"
    /\ dontPromptToOpen' = TRUE
    /\ prompts' = [prompts EXCEPT ![j].state = "never again", ![j].ranAfter = Len(handled)]
    /\ UNCHANGED <<handled, windows, lastIndex, callVars, history, uriVars>>

\* The user closes the prompt without running a choice.
closePrompt(j) ==
    /\ prompts[j].state = "shown"
    /\ prompts' = [prompts EXCEPT ![j].state = "closed"]
    /\ UNCHANGED <<dontPromptToOpen, handled, windows, lastIndex, callVars, history, uriVars>>

InitPrompt ==
    /\ text = <<>>
    /\ NoCall
    /\ roots = 0
    /\ NoLookup
    /\ NoPrompt

NextPrompt ==
    \/ getWorkspaceTags
    \/ \E j \in 1..Len(prompts) : runOpenWorkspace(j)
    \/ \E j \in 1..Len(prompts) : runSelectWorkspace(j)
    \/ \E j \in 1..Len(prompts) : pickSettles(j)
    \/ \E j \in 1..Len(prompts) : runDoNotShowAgain(j)
    \/ \E j \in 1..Len(prompts) : closePrompt(j)

SpecPrompt == InitPrompt /\ [][NextPrompt]_vars

-----------------------------------------------------------------------------
(* C13 *)

PromptsOf(i) == {j \in 1..Len(prompts) : prompts[j].call = i}

WindowsOf(j) == {k \in 1..Len(windows) : windows[k].prompt = j}

\* "Don't Show Again" has run before the i-th handleWorkspaceFiles call.
NeverAgainBefore(i) ==
    \E j \in 1..Len(prompts) : prompts[j].state = "never again" /\ prompts[j].ranAfter < i

\* C13: a handleWorkspaceFiles call made after "Don't Show Again" has run finds the
\* flag stored, issues no prompt and opens no window; a call made while the flag is
\* not stored issues exactly one prompt, with "Open Workspace" for one workspace file
\* and "Select Workspace" for several; and every window opened belongs to a prompt
\* whose open choice the user ran (the single file) or in whose pick the user chose
\* an item (that item), one window at most per prompt, none for a cancelled pick.
C13_NoPromptAfterNeverAgain ==
    /\ \A i \in 1..Len(handled) :
          /\ NeverAgainBefore(i) => handled[i].stored
          /\ handled[i].stored =>
                /\ PromptsOf(i) = {}
                /\ \A k \in 1..Len(windows) : prompts[windows[k].prompt].call # i
          /\ ~ handled[i].stored =>
                /\ Cardinality(PromptsOf(i)) = 1
                /\ \A j \in PromptsOf(i) :
                      /\ prompts[j].workspaces = handled[i].workspaces
                      /\ prompts[j].choice =
                            IF Len(handled[i].workspaces) = 1 THEN "Open Workspace"
                            ELSE "Select Workspace"
          /\ Len(handled[i].workspaces) >= 1
    /\ (\E j \in 1..Len(prompts) : prompts[j].state = "never again") => dontPromptToOpen
    /\ \A j \in 1..Len(prompts) :
          /\ prompts[j].call \in 1..Len(handled)
          /\ Cardinality(WindowsOf(j)) = IF prompts[j].state \in {"opened", "picked"} THEN 1 ELSE 0
          /\ prompts[j].state = "opened" => prompts[j].choice = "Open Workspace"
          /\ prompts[j].state \in {"picking", "picked", "cancelled"}
                => prompts[j].choice = "Select Workspace"
    /\ \A k \in 1..Len(windows) :
          \E f \in 1..Len(prompts[windows[k].prompt].workspaces) :
              /\ windows[k].uri =
                    Folder \o <<"/">> \o prompts[windows[k].prompt].workspaces[f]
              /\ prompts[windows[k].prompt].choice = "Open Workspace" => f = 1

\* Three calls: the first found two workspace files and the user picked the second
\* in its pick, which opened it; the second found one and the user ran "Don't Show
\* Again"; the third found the flag stored and issued nothing.
C13_Witness ==
    /\ Len(handled) = 3
    /\ handled[1].workspaces = <<FileA, FileB>>
    /\ handled[2].workspaces = <<FileA>>
    /\ ~ handled[2].stored
    /\ handled[3].stored
    /\ Len(prompts) = 2
    /\ prompts[1].state = "picked"
    /\ prompts[2].state = "never again"
    /\ prompts[2].ranAfter = 2
    /\ windows = <<[prompt |-> 1, uri |-> <<"/", "w", "/", "b", ".", "c", "o", "d", "e", "-", "w", "o", "r", "k", "s", "p", "a", "c", "e">>]>>

=============================================================================
